---- MODULE Spec2Model ----
(***************************************************************************)
(* A model of src/src/crispy/text/mktables.py: the UCD table compiler      *)
(* (UCDGenerator) and the two binary-search functions, contains and        *)
(* search, whose C++ text the compiler writes into the implementation file *)
(* (file_header, lines 80-124).                                            *)
(*                                                                         *)
(* The module holds four state machines over one set of variables:         *)
(*   SpecSearch  one invocation of contains and one of search over the     *)
(*               same table, each stepped one loop iteration at a time;    *)
(*   SpecGen     one run of UCDGenerator.generate over five source files;  *)
(*   SpecLookup  such a run, followed by a call of an emitted accessor;    *)
(*   SpecTwice   such a run, followed by a second run over the same files. *)
(***************************************************************************)
EXTENDS Integers, Sequences, FiniteSets, TLC

VARIABLES
    ranges,     \* the table handed to contains / search (array of Prop)
    call,       \* per function: codepoint, a, b, pc, result, trace, reads
    files,      \* the five UCD source files: source -> sequence of lines
    header,     \* what has been written to the header file, in order
    impl,       \* what has been written to the implementation file, in order
    pc,         \* where generate() is: a stage of main / generate
    at,         \* where the running process_* function is
    lineno,     \* the number of the next line f.readline() returns
    props,      \* the local dict props / cats of the running function
    props_name, \* the local props_name / cat_name of the running function
    table,      \* the local list table of collect_range_table_with_prop
    seed,       \* the hash seed of the running Python process
    earlier     \* what an earlier run of main left behind, if there was one

searchVars == <<ranges, call>>

genVars ==
    <<files, header, impl, pc, at, lineno, props, props_name, table, seed,
      earlier>>

vars ==
    <<ranges, call, files, header, impl, pc, at, lineno, props, props_name,
      table, seed, earlier>>

(***************************************************************************)
(* Bounds of the model.                                                    *)
(***************************************************************************)
\* longest sorted disjoint table
MaxN == 4
\* largest codepoint held by a sorted disjoint table
MaxCp == 6
\* longest table of arbitrary (unsorted, overlapping, inverted) intervals
MaxAnyN == 2
\* largest codepoint held by an arbitrary table
MaxAnyCp == 2
\* width of size_t in bits. The build has 64; TLC's integers are 32 bits
\* wide, and every width with 2^(SizeBits-1) - 1 >= MaxN gives the same runs.
SizeBits == 8

(***************************************************************************)
(* Integer types of the emitted C++.                                       *)
(***************************************************************************)
SizeMod == 2 ^ SizeBits

\* arithmetic in size_t: modulo 2^width
SizeT(x) == x % SizeMod

\* the conversion of a size_t value to int (the initialiser of `int b`)
ToInt(x) == IF x >= SizeMod \div 2 THEN x - SizeMod ELSE x

\* C++ integer division by two truncates toward zero
CDiv2(x) == IF x >= 0 THEN x \div 2 ELSE -((-x) \div 2)

(***************************************************************************)
(* Tables.  struct Interval { from, to }; struct Prop { interval,          *)
(* property }.  An array index i of the C++ is ranges[i + 1] here.         *)
(***************************************************************************)
Interval(f, t) == [from |-> f, to |-> t]

Prop(f, t, p) == [interval |-> Interval(f, t), property |-> p]

\* The enumerators given to the entries of a generated table, by position:
\* pairwise distinct, so that a returned property names the entry it is from.
TagNames == <<"Upper", "Lower", "T3", "T4", "T5", "T6", "T7", "T8">>

Tag(k) == TagNames[k]

Tagged(ivs) == [k \in 1..Len(ivs) |-> [interval |-> ivs[k], property |-> Tag(k)]]

\* what contains is handed: the intervals of the table, the property dropped
Intervals(t) == [k \in 1..Len(t) |-> t[k].interval]

Inside(iv, q) == iv.from <= q /\ q <= iv.to

Sorted(t) == \A k \in 1..(Len(t) - 1) : t[k].interval.from < t[k + 1].interval.from

Disjoint(t) ==
    \A j, k \in 1..Len(t) :
        j # k => (t[j].interval.to < t[k].interval.from
                  \/ t[k].interval.to < t[j].interval.from)

WellFormed(t) == \A k \in 1..Len(t) : t[k].interval.from <= t[k].interval.to

SortedDisjoint(t) == WellFormed(t) /\ Sorted(t) /\ Disjoint(t)

\* every sorted disjoint sequence of n well-formed intervals over 0..MaxCp
RECURSIVE SortedIntervalSeqs(_)
SortedIntervalSeqs(n) ==
    IF n = 0 THEN {<<>>}
    ELSE UNION { LET lo == IF s = <<>> THEN 0 ELSE s[Len(s)].to + 1
                 IN  { Append(s, Interval(p[1], p[2])) :
                         p \in { q \in (lo..MaxCp) \X (lo..MaxCp) : q[1] <= q[2] } }
               : s \in SortedIntervalSeqs(n - 1) }

\* the tables a compiler run over a well-formed UCD file emits
SortedTables == UNION { { Tagged(s) : s \in SortedIntervalSeqs(n) } : n \in 0..MaxN }

\* every sequence of n intervals over 0..MaxAnyCp, in any order, overlapping
\* or not, with from > to allowed (a range line is stored as written)
RECURSIVE AnyIntervalSeqs(_)
AnyIntervalSeqs(n) ==
    IF n = 0 THEN {<<>>}
    ELSE { Append(s, Interval(p[1], p[2])) :
             s \in AnyIntervalSeqs(n - 1),
             p \in (0..MaxAnyCp) \X (0..MaxAnyCp) }

AnyTables == UNION { { Tagged(s) : s \in AnyIntervalSeqs(n) } : n \in 0..MaxAnyN }

\* the two-entry table of letters: 0x41..0x5A Upper, 0x61..0x7A Lower
AlphaTable == <<Prop(65, 90, "Upper"), Prop(97, 122, "Lower")>>

\* the single-entry table of the emoji block 0x1F600..0x1F64F
EmojiTable == <<Prop(128512, 128591, "Upper")>>

\* 0x30, 0x41, 0x42, 0x5A, 0x5B, 0x61, 0x7A, 0x7B
AlphaQueries == {48, 65, 66, 90, 91, 97, 122, 123}

\* 0x1F5FF, 0x1F600, 0x1F620, 0x1F64F, 0x1F650
EmojiQueries == {128511, 128512, 128544, 128591, 128592}

\* codepoints above the Unicode ceiling 0x10FFFF: 0x110000 and 0x7FFFFFFF
OutOfDomain == {1114112, 2147483647}

Tables == SortedTables \cup AnyTables \cup {AlphaTable, EmojiTable}

Queries(t) ==
    IF t = AlphaTable THEN AlphaQueries
    ELSE IF t = EmojiTable THEN EmojiQueries
    ELSE (0..(MaxCp + 1)) \cup OutOfDomain

(***************************************************************************)
(* The two functions.  A call is at "call" before its first statement, at  *)
(* "loop" at the test of the while loop, and at "done" once it returned.   *)
(* trace holds (a, b, i) of every loop iteration entered; reads holds the  *)
(* array indices read, in order.                                           *)
(***************************************************************************)
Forms == {"contains", "search"}

NewCall(q) ==
    [codepoint |-> q, a |-> 0, b |-> 0, pc |-> "call", result |-> "pending",
     trace |-> <<>>, reads |-> <<>>, ub |-> FALSE]

\* an array index the array has
InBounds(t, i) == 0 <= i /\ i < Len(t)

\* What the build can produce once an element outside the array is read
\* (undefined behaviour): a crash, or a return of anything.
UBResults(f, t) ==
    IF f = "contains" THEN {"fault", "true", "false"}
    ELSE {"fault", "nullopt", "garbage"} \cup { t[k].property : k \in 1..Len(t) }

Undefined(f, c, i, r) ==
    [c EXCEPT !.pc = "done", !.result = r, !.ub = TRUE,
              !.reads = Append(c.reads, i)]

\* ---- contains: lines 80-97 ----

\* line 84: int b = _ranges.size() - 1;
ContainsInitB(n) == ToInt(SizeT(n - 1))

\* a slip: the midpoint rounded up
ContainsMidUp(a, b) == CDiv2(b + a + 1)

\* line 87: auto const i = (b + a) / 2;   (int)
ContainsMid(a, b) == CDiv2(b + a)

\* a slip: a = i + 2
ContainsAboveSkip(i) == i + 2

\* line 90: a = i + 1;
ContainsAbove(i) == i + 1

\* a slip: b = i - 2
ContainsBelowFar(i) == i - 2

\* line 92: b = i - 1;
ContainsBelow(i) == i - 1

\* lines 83-84
ContainsEnter ==
    /\ call["contains"].pc = "call"
    /\ call' = [call EXCEPT !["contains"] =
                   [@ EXCEPT !.a = 0, !.b = ContainsInitB(Len(ranges)),
                             !.pc = "loop"]]
    /\ UNCHANGED <<ranges, genVars>>

\* lines 85-95: one iteration of the loop
ContainsIterate ==
    LET c == call["contains"]
        i == ContainsMid(c.a, c.b)
        t == Intervals(ranges)
        e == c.trace
        c1 == [c EXCEPT !.trace = Append(e, <<c.a, c.b, i>>)]
    IN  /\ c.pc = "loop"
        /\ c.a < c.b
        /\ IF InBounds(t, i)
           THEN LET I == t[i + 1]
                    c2 == [c1 EXCEPT !.reads = Append(c.reads, i)]
                IN  call' = [call EXCEPT !["contains"] =
                        IF I.to < c.codepoint
                        THEN [c2 EXCEPT !.a = ContainsAbove(i)]
                        ELSE IF I.from > c.codepoint
                        THEN [c2 EXCEPT !.b = ContainsBelow(i)]
                        ELSE [c2 EXCEPT !.pc = "done", !.result = "true"]]
           ELSE \E r \in UBResults("contains", ranges) :
                    call' = [call EXCEPT !["contains"] =
                                Undefined("contains", c1, i, r)]
        /\ UNCHANGED <<ranges, genVars>>

\* line 96: return a == b && from <= codepoint && codepoint <= to;
ContainsReturn ==
    LET c == call["contains"]
        t == Intervals(ranges)
    IN  /\ c.pc = "loop"
        /\ ~(c.a < c.b)
        /\ IF c.a # c.b
           THEN call' = [call EXCEPT !["contains"] =
                            [c EXCEPT !.pc = "done", !.result = "false"]]
           ELSE IF InBounds(t, c.a)
           THEN call' = [call EXCEPT !["contains"] =
                            [c EXCEPT !.pc = "done",
                                      !.reads = Append(c.reads, c.a),
                                      !.result =
                                          IF Inside(t[c.a + 1], c.codepoint)
                                          THEN "true" ELSE "false"]]
           ELSE \E r \in UBResults("contains", ranges) :
                    call' = [call EXCEPT !["contains"] =
                                Undefined("contains", c, c.a, r)]
        /\ UNCHANGED <<ranges, genVars>>

\* ---- search: lines 105-124 ----

\* line 109: size_t b = _ranges.size() - 1;
SearchInitB(n) == SizeT(n - 1)

\* line 112: auto const i = (b + a) / 2;   (size_t)
SearchMid(a, b) == SizeT(b + a) \div 2

\* line 115: a = i + 1;
SearchAbove(i) == SizeT(i + 1)

\* line 117: b = i - 1;
SearchBelow(i) == SizeT(i - 1)

\* lines 108-109
SearchEnter ==
    /\ call["search"].pc = "call"
    /\ call' = [call EXCEPT !["search"] =
                   [@ EXCEPT !.a = 0, !.b = SearchInitB(Len(ranges)),
                             !.pc = "loop"]]
    /\ UNCHANGED <<ranges, genVars>>

\* lines 110-120: one iteration of the loop
SearchIterate ==
    LET c == call["search"]
        i == SearchMid(c.a, c.b)
        e == c.trace
        c1 == [c EXCEPT !.trace = Append(e, <<c.a, c.b, i>>)]
    IN  /\ c.pc = "loop"
        /\ c.a < c.b
        /\ IF InBounds(ranges, i)
           THEN LET I == ranges[i + 1]
                    c2 == [c1 EXCEPT !.reads = Append(c.reads, i)]
                IN  call' = [call EXCEPT !["search"] =
                        IF I.interval.to < c.codepoint
                        THEN [c2 EXCEPT !.a = SearchAbove(i)]
                        ELSE IF I.interval.from > c.codepoint
                        THEN [c2 EXCEPT !.b = SearchBelow(i)]
                        ELSE [c2 EXCEPT !.pc = "done", !.result = I.property]]
           ELSE \E r \in UBResults("search", ranges) :
                    call' = [call EXCEPT !["search"] =
                                Undefined("search", c1, i, r)]
        /\ UNCHANGED <<ranges, genVars>>

\* lines 121-123
SearchReturn ==
    LET c == call["search"]
    IN  /\ c.pc = "loop"
        /\ ~(c.a < c.b)
        /\ IF c.a # c.b
           THEN call' = [call EXCEPT !["search"] =
                            [c EXCEPT !.pc = "done", !.result = "nullopt"]]
           ELSE IF InBounds(ranges, c.a)
           THEN call' = [call EXCEPT !["search"] =
                            [c EXCEPT !.pc = "done",
                                      !.reads = Append(c.reads, c.a),
                                      !.result =
                                          IF Inside(ranges[c.a + 1].interval, c.codepoint)
                                          THEN ranges[c.a + 1].property
                                          ELSE "nullopt"]]
           ELSE \E r \in UBResults("search", ranges) :
                    call' = [call EXCEPT !["search"] =
                                Undefined("search", c, c.a, r)]
        /\ UNCHANGED <<ranges, genVars>>

(***************************************************************************)
(* Lines of a UCD file.  A line is its sequence of lexemes, the newline    *)
(* left out: a run of upper-case hexadecimal digits ("hex", d its digits), *)
(* any other run of word characters ("word"), white space ("ws"), the      *)
(* punctuation the patterns name, the keyword of a marker line ("key") and *)
(* free text ("text").  w is the lexeme as written.                        *)
(***************************************************************************)
Tok(t, d, w) == [t |-> t, d |-> d, w |-> w]

Hex(d, w) == Tok("hex", d, w)
Word(w) == Tok("word", <<>>, w)
Key(w) == Tok("key", <<>>, w)
Text(w) == Tok("text", <<>>, w)
WS == Tok("ws", <<>>, " ")
SEMI == Tok("semi", <<>>, ";")
HASH == Tok("hash", <<>>, "#")
DOTDOT == Tok("dotdot", <<>>, "..")

\* int(s, 16) of a hex lexeme, from its digits
RECURSIVE HexValue(_)
HexValue(d) ==
    IF d = <<>> THEN 0
    ELSE 16 * HexValue(SubSeq(d, 1, Len(d) - 1)) + d[Len(d)]

(***************************************************************************)
(* re.match of the generator's patterns.  A pattern is a sequence of       *)
(* items: a lexeme class to be met next, "ws*" for optional white space,  *)
(* "rest" for the final group taking the rest of the line, and "end" for   *)
(* the end of the line.  [0-9A-F]+ meets a hex lexeme only; \w+ meets a word   *)
(* lexeme and a hex lexeme alike.  The result is the sequence of captured  *)
(* groups (a lexeme each, the rest of the line for "rest"), or NoMatch.    *)
(***************************************************************************)
NoMatch == [ok |-> FALSE, g |-> <<>>]

Matched(caps) == [ok |-> TRUE, g |-> caps]

Meets(item, tok) ==
    CASE item = "hex"  -> tok.t = "hex"
      [] item = "word" -> tok.t \in {"hex", "word"}
      [] OTHER         -> tok.t = "key" /\ tok.w = item

RECURSIVE MatchFrom(_, _, _, _, _)
MatchFrom(pat, line, i, j, caps) ==
    IF i > Len(pat) THEN Matched(caps)
    ELSE LET item == pat[i]
         IN  CASE item = "ws*" ->
                    IF j <= Len(line) /\ line[j].t = "ws"
                    THEN MatchFrom(pat, line, i, j + 1, caps)
                    ELSE MatchFrom(pat, line, i + 1, j, caps)
               [] item = "rest" ->
                    Matched(Append(caps, SubSeq(line, j, Len(line))))
               [] item = "end" ->
                    IF j > Len(line) THEN Matched(caps) ELSE NoMatch
               [] item \in {"semi", "hash", "dotdot"} ->
                    IF j <= Len(line) /\ line[j].t = item
                    THEN MatchFrom(pat, line, i + 1, j + 1, caps)
                    ELSE NoMatch
               [] OTHER ->
                    IF j <= Len(line) /\ Meets(item, line[j])
                    THEN MatchFrom(pat, line, i + 1, j + 1,
                                   IF item \in {"hex", "word"}
                                   THEN Append(caps, line[j]) ELSE caps)
                    ELSE NoMatch

\* a slip: pattern.search(line), the pattern tried at every position
MatchAnywhere(pat, line) ==
    LET hits == { j \in 1..(Len(line) + 1) : MatchFrom(pat, line, 1, j, <<>>).ok }
    IN  IF hits = {} THEN NoMatch
        ELSE MatchFrom(pat, line, 1, CHOOSE j \in hits : \A h \in hits : j <= h,
                       <<>>)

\* pattern.match(line): the pattern is tried at the start of the line only
Match(pat, line) == MatchFrom(pat, line, 1, 1, <<>>)

\* a slip: the '#' of the comment part left out of the pattern
singleValueLoose ==
    <<"hex", "ws*", "semi", "ws*", "word", "ws*", "rest">>

\* line 35: '([0-9A-F]+)\s*;\s*(\w+)\s*#\s*(.*)$'
singleValueRE ==
    <<"hex", "ws*", "semi", "ws*", "word", "ws*", "hash", "ws*", "rest">>

\* line 36: '([0-9A-F]+)\.\.([0-9A-F]+)\s*;\s*(\w+)\s*#\s*(.*)$'
rangeValueRE ==
    <<"hex", "dotdot", "hex", "ws*", "semi", "ws*", "word", "ws*", "hash",
      "ws*", "rest">>

\* line 193: '^#\s*{}:\s*(\w+)$'.format(prop_key)
PropsHeaderRE(prop_key) == <<"hash", "ws*", prop_key, "ws*", "word", "end">>

\* line 333: '^#\s*General_Category=(\w+)$'
GeneralCategoryHeaderRE == <<"hash", "ws*", "General_Category=", "word", "end">>

\* line[0] == '#'
StartsWithHash(line) == line # <<>> /\ line[1].t = "hash"

(***************************************************************************)
(* The source files.  generate() reads five files, in this order.          *)
(***************************************************************************)
\* lines 44-48
Sources == <<"core", "general_category", "grapheme", "east_asian", "emoji">>

SourceSet == { Sources[k] : k \in 1..Len(Sources) }

\* most lines of a generated file
MaxLines == 3

Cmt(w) == <<HASH, WS, Text(w)>>

\* "1 ; Na # c"
SingleLine(d, w, prop) ==
    <<Hex(d, w), WS, SEMI, WS, prop, WS>> \o Cmt("c")

\* "2;W#d": no white space anywhere
TightLine(d, w, prop) == <<Hex(d, w), SEMI, prop, HASH, Text("d")>>

\* "2..3 ; Na # c"
RangeLine(d1, w1, d2, w2, prop) ==
    <<Hex(d1, w1), DOTDOT, Hex(d2, w2), WS, SEMI, WS, prop, WS>> \o Cmt("c")

\* lines every dialect is given: records in and out of order, sharing
\* starts, overlapping
DataLines ==
    { SingleLine(<<1>>, "1", Word("Na")),
      TightLine(<<2>>, "2", Word("W")),
      RangeLine(<<2>>, "2", <<3>>, "3", Word("Na")),
      RangeLine(<<1>>, "1", <<2>>, "2", Word("W")) }

\* "3..1 ; Na # c": a range written backwards
BackwardsLine == RangeLine(<<3>>, "3", <<1>>, "1", Word("Na"))

\* "# c"
CommentLine == Cmt("c")

\* "2 ; W": a record without its comment part
NoCommentLine == <<Hex(<<2>>, "2"), WS, SEMI, WS, Word("W")>>

BlankLine == <<>>

\* "2 ; Zz # c": a width letter WIDTH_NAMES does not hold
UnknownWidthLine == SingleLine(<<2>>, "2", Word("Zz"))

\* "3 ; N # c": the width letter of the accessor's default, Neutral
NeutralLine == SingleLine(<<3>>, "3", Word("N"))

\* "# Property: Lu"
PropertyMarker(name) == <<HASH, WS, Key("Property:"), WS, Word(name)>>

\* "# General_Category=Lu"
CategoryMarker(name) == <<HASH, WS, Key("General_Category="), Word(name)>>

\* the lines a file of each dialect is made of: the records, and lines that
\* are no record
Alphabet(s) ==
    CASE s = "core" ->
            DataLines \cup {BackwardsLine, CommentLine, BlankLine}
      [] s = "emoji" ->
            DataLines \cup {BackwardsLine, CommentLine, NoCommentLine}
      [] s = "grapheme" ->
            DataLines \cup {PropertyMarker("Lu"), PropertyMarker("Nd"), CommentLine}
      [] s = "general_category" ->
            DataLines \cup {CategoryMarker("Lu"), CategoryMarker("Nd"), CommentLine}
      [] OTHER ->
            DataLines \cup {BackwardsLine, NoCommentLine, UnknownWidthLine,
                            NeutralLine}

RECURSIVE LinesUpTo(_, _)
LinesUpTo(s, n) ==
    IF n = 0 THEN {<<>>}
    ELSE LinesUpTo(s, n - 1) \cup
         { Append(f, l) : f \in LinesUpTo(s, n - 1), l \in Alphabet(s) }

\* a small well-formed file of each dialect
DefaultLines(s) ==
    CASE s = "grapheme" ->
            <<PropertyMarker("Lu"), SingleLine(<<1>>, "1", Word("Na"))>>
      [] s = "general_category" ->
            <<CategoryMarker("Lu"), SingleLine(<<1>>, "1", Word("Na"))>>
      [] OTHER -> <<SingleLine(<<1>>, "1", Word("Na"))>>

Readable(lines) == [readable |-> TRUE, lines |-> lines]

Unreadable == [readable |-> FALSE, lines |-> <<>>]

(***************************************************************************)
(* Dictionaries, entries, ordering.                                        *)
(***************************************************************************)
EmptyDict == [k \in {} |-> <<>>]

\* a slip: the test `not (name in props)` left out, the list always reset
CreateAfresh(d, name) ==
    [k \in DOMAIN d \cup {name} |-> IF k = name THEN <<>> ELSE d[k]]

\* if not (name in props): props[name] = []
Create(d, name) ==
    IF name \in DOMAIN d THEN d
    ELSE [k \in DOMAIN d \cup {name} |-> IF k = name THEN <<>> ELSE d[k]]

\* a slip: the entry is appended to every list of the dict
AppendToEvery(d, name, entry) == [k \in DOMAIN d |-> Append(d[k], entry)]

\* props[name].append(entry), name a key of props
AppendTo(d, name, entry) == [d EXCEPT ![name] = Append(@, entry)]

\* {'start': .., 'end': .., 'comment': ..}
Entry(start, end, comment) ==
    [start |-> start, end |-> end, comment |-> comment]

\* {'start': .., 'end': .., 'property': .., 'comment': ..}
ValuedEntry(start, end, prop, comment) ==
    [start |-> start, end |-> end, property |-> prop, comment |-> comment]

\* the characters of the names the files hold, and of the width names, as
\* code points
CharCodes ==
    [Lu |-> <<76, 117>>, Na |-> <<78, 97>>, Nd |-> <<78, 100>>,
     W |-> <<87>>, Zz |-> <<90, 122>>, N |-> <<78>>,
     Ambiguous |-> <<65, 109, 98, 105, 103, 117, 111, 117, 115>>,
     FullWidth |-> <<70, 117, 108, 108, 87, 105, 100, 116, 104>>,
     HalfWidth |-> <<72, 97, 108, 102, 87, 105, 100, 116, 104>>,
     Neutral |-> <<78, 101, 117, 116, 114, 97, 108>>,
     Narrow |-> <<78, 97, 114, 114, 111, 119>>,
     Wide |-> <<87, 105, 100, 101>>]

\* Python's < on two strings
RECURSIVE SeqLess(_, _)
SeqLess(x, y) ==
    IF y = <<>> THEN FALSE
    ELSE IF x = <<>> THEN TRUE
    ELSE IF x[1] # y[1] THEN x[1] < y[1]
    ELSE SeqLess(Tail(x), Tail(y))

StrLess(x, y) == SeqLess(CharCodes[x], CharCodes[y])

\* a slip: sorted(names, reverse = True)
RECURSIVE SortedNamesDescending(_)
SortedNamesDescending(S) ==
    IF S = {} THEN <<>>
    ELSE LET m == CHOOSE x \in S : \A y \in S \ {x} : StrLess(y, x)
         IN  <<m>> \o SortedNamesDescending(S \ {m})

\* sorted(names)
RECURSIVE SortedNames(_)
SortedNames(S) ==
    IF S = {} THEN <<>>
    ELSE LET m == CHOOSE x \in S : \A y \in S \ {x} : StrLess(x, y)
         IN  <<m>> \o SortedNames(S \ {m})

\* a slip: an unstable sort, the entry taken last goes before its equals
InsertBeforeEquals(sorted, e) ==
    LET k == Cardinality({ j \in 1..Len(sorted) : sorted[j].start < e.start })
    IN  SubSeq(sorted, 1, k) \o <<e>> \o SubSeq(sorted, k + 1, Len(sorted))

\* list.sort(key = lambda a: a['start']): a stable sort; the entry taken
\* last goes behind every entry whose start is not greater
InsertByStart(sorted, e) ==
    LET k == Cardinality({ j \in 1..Len(sorted) : sorted[j].start <= e.start })
    IN  SubSeq(sorted, 1, k) \o <<e>> \o SubSeq(sorted, k + 1, Len(sorted))

\* a slip: a sort that merges, an entry dropped when an entry of the same
\* start is already held
RECURSIVE SortByStartMerging(_)
SortByStartMerging(list) ==
    IF list = <<>> THEN <<>>
    ELSE LET rest == SortByStartMerging(SubSeq(list, 1, Len(list) - 1))
             e == list[Len(list)]
         IN  IF \E j \in 1..Len(rest) : rest[j].start = e.start THEN rest
             ELSE InsertByStart(rest, e)

RECURSIVE SortByStart(_)
SortByStart(list) ==
    IF list = <<>> THEN <<>>
    ELSE InsertByStart(SortByStart(SubSeq(list, 1, Len(list) - 1)),
                       list[Len(list)])

\* for prop_key in props.keys(): props[prop_key].sort(...)
SortAll(d) == [k \in DOMAIN d |-> SortByStart(d[k])]

(***************************************************************************)
(* What one line does to the locals of each process_* function.            *)
(***************************************************************************)
\* the groups of a singleValueRE match: code, prop, comment
SingleCode(m) == HexValue(m.g[1].d)
SingleProp(m) == m.g[2].w
SingleComment(m) == m.g[3]

\* the groups of a rangeValueRE match: start, end, prop, comment
RangeStart(m) == HexValue(m.g[1].d)
RangeEnd(m) == HexValue(m.g[2].d)
RangeProp(m) == m.g[3].w
RangeComment(m) == m.g[4]

\* lines 142-160: process_core_props, the body of the read loop
CoreCollectLine(d, line) ==
    IF StartsWithHash(line) THEN d
    ELSE LET m == Match(singleValueRE, line)
             d1 == IF m.ok
                   THEN AppendTo(Create(d, SingleProp(m)), SingleProp(m),
                                 Entry(SingleCode(m), SingleCode(m), SingleComment(m)))
                   ELSE d
             r == Match(rangeValueRE, line)
         IN  IF r.ok
             THEN AppendTo(Create(d1, RangeProp(r)), RangeProp(r),
                           Entry(RangeStart(r), RangeEnd(r), RangeComment(r)))
             ELSE d1

\* a slip: the active name is not kept from one line to the next
LocalsUnnamed(d, name, raised) == [props |-> d, props_name |-> "", raised |-> raised]

\* What a marker dialect's loop body leaves: the dict, the active name, and
\* whether it raised (KeyError: the active name is no key of the dict).
Locals(d, name, raised) == [props |-> d, props_name |-> name, raised |-> raised]

\* lines 202-219: process_props, the body of the read loop
PropsCollectLine(d, name, line, prop_key) ==
    LET h == Match(PropsHeaderRE(prop_key), line)
        name1 == IF h.ok THEN h.g[1].w ELSE name
        d1 == IF h.ok THEN Create(d, name1) ELSE d
        m == Match(singleValueRE, line)
        r == Match(rangeValueRE, line)
    IN  IF (m.ok \/ r.ok) /\ name1 \notin DOMAIN d1
        THEN Locals(d1, name1, TRUE)
        ELSE LET d2 == IF m.ok
                       THEN AppendTo(d1, name1,
                                ValuedEntry(SingleCode(m), SingleCode(m),
                                            SingleProp(m), SingleComment(m)))
                       ELSE d1
                 d3 == IF r.ok
                       THEN AppendTo(d2, name1,
                                ValuedEntry(RangeStart(r), RangeEnd(r),
                                            RangeProp(r), RangeComment(r)))
                       ELSE d2
             IN  Locals(d3, name1, FALSE)

\* lines 343-362: process_derived_general_category, the body of the read loop
GeneralCategoryCollectLine(d, name, line) ==
    LET h == Match(GeneralCategoryHeaderRE, line)
        name1 == IF h.ok THEN h.g[1].w ELSE name
        d1 == IF h.ok THEN Create(d, name1) ELSE d
        m == Match(singleValueRE, line)
        r == Match(rangeValueRE, line)
    IN  IF StartsWithHash(line) THEN Locals(d1, name1, FALSE)
        ELSE IF (m.ok \/ r.ok) /\ name1 \notin DOMAIN d1
        THEN Locals(d1, name1, TRUE)
        ELSE LET d2 == IF m.ok
                       THEN AppendTo(d1, name1,
                                Entry(SingleCode(m), SingleCode(m), SingleComment(m)))
                       ELSE d1
                 d3 == IF r.ok
                       THEN AppendTo(d2, name1,
                                Entry(RangeStart(r), RangeEnd(r), RangeComment(r)))
                       ELSE d2
             IN  Locals(d3, name1, FALSE)

None == [none |-> TRUE]

\* lines 271-285: parse_range
parse_range(line) ==
    LET m == Match(singleValueRE, line)
        r == Match(rangeValueRE, line)
    IN  IF m.ok
        THEN ValuedEntry(SingleCode(m), SingleCode(m), SingleProp(m), SingleComment(m))
        ELSE IF r.ok
        THEN ValuedEntry(RangeStart(r), RangeEnd(r), RangeProp(r), RangeComment(r))
        ELSE None

\* lines 296-301: process_emoji_props, the body of the read loop
EmojiCollectLine(d, line) ==
    LET r == parse_range(line)
    IN  IF r # None
        THEN AppendTo(Create(d, r.property), r.property, r)
        ELSE d

\* lines 403-415: collect_range_table_with_prop, the body of the read loop
EastAsianCollectLine(t, line) ==
    LET m == Match(singleValueRE, line)
        t1 == IF m.ok
              THEN Append(t, ValuedEntry(SingleCode(m), SingleCode(m),
                                         SingleProp(m), SingleComment(m)))
              ELSE t
        r == Match(rangeValueRE, line)
    IN  IF r.ok
        THEN Append(t1, ValuedEntry(RangeStart(r), RangeEnd(r),
                                    RangeProp(r), RangeComment(r)))
        ELSE t1

(***************************************************************************)
(* What is written.  The text of the two files is modelled as a sequence   *)
(* of items, one per table, enumeration, accessor or declaration, in the   *)
(* order of the write calls.                                               *)
(***************************************************************************)
Item(kind, source, name, rows, members) ==
    [kind |-> kind, source |-> source, name |-> name, rows |-> rows,
     members |-> members]

\* what the two files hold before the run: the output of an earlier run
Stale == <<Item("stale", "", "", <<>>, <<>>)>>

\* for name in sorted(props.keys()): one array per name
TableItems(s, d) ==
    LET names == SortedNames(DOMAIN d)
    IN  [k \in 1..Len(names) |-> Item("table", s, names[k], d[names[k]], <<>>)]

\* enums = set(); for enum in props[name]: enums.add(enum['property'])
EnumsOf(list) == { list[k].property : k \in 1..Len(list) }

\* The hash seeds a Python process can start with: str hashes are salted
\* per process, and the order in which a set of str is iterated follows
\* the hashes.
Seeds == {0, 1}

\* for enum in enums: the iteration of a set, in the order the seed gives
Iterate(S) ==
    LET up == SortedNames(S)
    IN  IF seed = 0 THEN up
        ELSE [k \in 1..Len(up) |-> up[Len(up) + 1 - k]]

\* a slip: the set is iterated as it is, the call of sorted left out
unsorted(seq) == seq

\* sorted(enums), of whatever order the iteration gives
sorted(seq) == SortedNames({ seq[k] : k \in 1..Len(seq) })

\* lines 420-427: WIDTH_NAMES, its keys in the order written
WidthKeys == <<"A", "F", "H", "N", "Na", "W">>

WIDTH_NAMES ==
    [A |-> "Ambiguous", F |-> "FullWidth", H |-> "HalfWidth", N |-> "Neutral",
     Na |-> "Narrow", W |-> "Wide"]

\* the rows written before the first entry whose letter WIDTH_NAMES lacks
RECURSIVE KnownPrefix(_)
KnownPrefix(t) ==
    IF t = <<>> \/ t[1].property \notin DOMAIN WIDTH_NAMES THEN <<>>
    ELSE <<[t[1] EXCEPT !.property = WIDTH_NAMES[t[1].property]]>>
         \o KnownPrefix(Tail(t))

(***************************************************************************)
(* main and UCDGenerator.generate.  pc is "new" before the generator is    *)
(* constructed, then "file_header", then the source whose process_*        *)
(* function runs, then "file_footer", and at the end "done", or "failed"   *)
(* when an exception left the run.  Within a process_* function, at is     *)
(* "open" before the file is opened, "collect" in the read loop, and       *)
(* "write" once the tables are complete.                                   *)
(***************************************************************************)
NextStage(s) ==
    LET k == CHOOSE j \in 1..Len(Sources) : Sources[j] = s
    IN  IF k < Len(Sources) THEN Sources[k + 1] ELSE "file_footer"

Lines == files[pc].lines

AtEOF == lineno > Len(Lines)

\* lines 31-36, called from main (lines 470-472): both files are opened 'w'
Construct ==
    /\ pc = "new"
    /\ header' = <<>>
    /\ impl' = <<>>
    /\ pc' = "file_header"
    /\ UNCHANGED <<searchVars, seed, earlier, files, at, lineno, props, props_name, table>>

\* lines 52-127
file_header ==
    /\ pc = "file_header"
    /\ header' = Append(header, Item("prologue", "", "", <<>>, <<>>))
    /\ impl' = impl \o <<Item("prologue", "", "", <<>>, <<>>),
                         Item("primitive", "", "contains", <<>>, <<>>),
                         Item("primitive", "", "search", <<>>, <<>>)>>
    /\ pc' = Sources[1]
    /\ at' = "open"
    /\ UNCHANGED <<searchVars, seed, earlier, files, lineno, props, props_name, table>>

\* lines 135, 192, 288, 331, 432: with open(...) as f, and the locals set
\* before the read loop
OpenSource ==
    /\ pc \in SourceSet
    /\ at = "open"
    /\ IF files[pc].readable
       THEN /\ at' = "collect"
            /\ lineno' = 1
            /\ props' = EmptyDict
            /\ props_name' = ""
            /\ table' = <<>>
            /\ pc' = pc
       ELSE /\ pc' = "failed"
            /\ UNCHANGED <<at, lineno, props, props_name, table>>
    /\ UNCHANGED <<searchVars, seed, earlier, files, header, impl>>

\* ---- process_core_props: lines 134-189 ----

CoreCollect ==
    /\ pc = "core" /\ at = "collect" /\ ~AtEOF
    /\ props' = CoreCollectLine(props, Lines[lineno])
    /\ lineno' = lineno + 1
    /\ UNCHANGED <<searchVars, seed, earlier, files, header, impl, pc, at, props_name, table>>

\* lines 140-141 and 162-164
CoreSort ==
    /\ pc = "core" /\ at = "collect" /\ AtEOF
    /\ props' = SortAll(props)
    /\ at' = "write"
    /\ UNCHANGED <<searchVars, seed, earlier, files, header, impl, pc, lineno, props_name, table>>

\* lines 166-189
CoreWrite ==
    /\ pc = "core" /\ at = "write"
    /\ impl' = impl \o TableItems("core", props)
                    \o <<Item("accessor", "core", "Core_Property", <<>>,
                              SortedNames(DOMAIN props))>>
    /\ header' = header \o <<Item("enum", "core", "Core_Property", <<>>,
                                  SortedNames(DOMAIN props)),
                             Item("decl", "core", "Core_Property", <<>>, <<>>)>>
    /\ pc' = NextStage(pc)
    /\ at' = "open"
    /\ UNCHANGED <<searchVars, seed, earlier, files, lineno, props, props_name, table>>

\* ---- process_derived_general_category: lines 330-395 ----

GeneralCategoryCollect ==
    /\ pc = "general_category" /\ at = "collect" /\ ~AtEOF
    /\ LET o == GeneralCategoryCollectLine(props, props_name, Lines[lineno])
       IN  /\ props' = o.props
           /\ props_name' = o.props_name
           /\ pc' = IF o.raised THEN "failed" ELSE pc
    /\ lineno' = lineno + 1
    /\ UNCHANGED <<searchVars, seed, earlier, files, header, impl, at, table>>

\* lines 341-342 and 364-395: the tables are written as collected
GeneralCategoryWrite ==
    /\ pc = "general_category" /\ at = "collect" /\ AtEOF
    /\ impl' = impl \o TableItems("general_category", props)
                    \o <<Item("accessor", "general_category", "General_Category",
                              <<>>, SortedNames(DOMAIN props))>>
    /\ header' = header
                 \o <<Item("enum", "general_category", "General_Category", <<>>,
                           SortedNames(DOMAIN props)),
                      Item("decl", "general_category", "General_Category", <<>>, <<>>)>>
                 \o [k \in 1..Cardinality(DOMAIN props) |->
                        Item("inline", "general_category",
                             SortedNames(DOMAIN props)[k], <<>>, <<>>)]
    /\ pc' = NextStage(pc)
    /\ at' = "open"
    /\ UNCHANGED <<searchVars, seed, earlier, files, lineno, props, props_name, table>>

\* ---- process_grapheme_break_props / process_props: lines 191-269 ----

PropsCollect ==
    /\ pc = "grapheme" /\ at = "collect" /\ ~AtEOF
    /\ LET o == PropsCollectLine(props, props_name, Lines[lineno], "Property:")
       IN  /\ props' = o.props
           /\ props_name' = o.props_name
           /\ pc' = IF o.raised THEN "failed" ELSE pc
    /\ lineno' = lineno + 1
    /\ UNCHANGED <<searchVars, seed, earlier, files, header, impl, at, table>>

\* lines 200-201 and 221-223
PropsSort ==
    /\ pc = "grapheme" /\ at = "collect" /\ AtEOF
    /\ props' = SortAll(props)
    /\ at' = "write"
    /\ UNCHANGED <<searchVars, seed, earlier, files, header, impl, pc, lineno, props_name, table>>

\* lines 241-248: one enumeration per name, its values sorted
PropsEnumItems(s, d) ==
    LET names == SortedNames(DOMAIN d)
    IN  [k \in 1..Len(names) |->
            Item("enum", s, names[k], <<>>,
                 sorted(Iterate(EnumsOf(d[names[k]]))))]

\* lines 250-264: per name, one declaration (header) or one accessor
\* definition (implementation) per value
RECURSIVE PropsAccessorItems(_, _, _, _)
PropsAccessorItems(kind, s, d, names) ==
    IF names = <<>> THEN <<>>
    ELSE LET enums == sorted(Iterate(EnumsOf(d[names[1]])))
         IN  [k \in 1..Len(enums) |-> Item(kind, s, names[1], <<>>, <<enums[k]>>)]
             \o PropsAccessorItems(kind, s, d, Tail(names))

\* lines 225-266
PropsWrite ==
    /\ pc = "grapheme" /\ at = "write"
    /\ impl' = impl \o TableItems("grapheme", props)
                    \o PropsAccessorItems("accessor", "grapheme", props,
                                          SortedNames(DOMAIN props))
    /\ header' = header \o PropsEnumItems("grapheme", props)
                        \o PropsAccessorItems("decl", "grapheme", props,
                                              SortedNames(DOMAIN props))
    /\ pc' = NextStage(pc)
    /\ at' = "open"
    /\ UNCHANGED <<searchVars, seed, earlier, files, lineno, props, props_name, table>>

\* ---- process_east_asian_width: lines 397-467 ----

EastAsianCollect ==
    /\ pc = "east_asian" /\ at = "collect" /\ ~AtEOF
    /\ table' = EastAsianCollectLine(table, Lines[lineno])
    /\ lineno' = lineno + 1
    /\ UNCHANGED <<searchVars, seed, earlier, files, header, impl, pc, at, props, props_name>>

\* lines 401-402 and 416-417
EastAsianSort ==
    /\ pc = "east_asian" /\ at = "collect" /\ AtEOF
    /\ table' = SortByStart(table)
    /\ at' = "write"
    /\ UNCHANGED <<searchVars, seed, earlier, files, header, impl, pc, lineno, props, props_name>>

\* lines 435-465: WIDTH_NAMES[propRange['property']] raises KeyError for a
\* letter it lacks, after the rows before that entry were written
EastAsianWrite ==
    /\ pc = "east_asian" /\ at = "write"
    /\ header' = header
                 \o <<Item("enum", "east_asian", "EastAsianWidth", <<>>,
                           [k \in 1..Len(WidthKeys) |-> WIDTH_NAMES[WidthKeys[k]]]),
                      Item("decl", "east_asian", "EastAsianWidth", <<>>, <<>>)>>
    /\ IF Len(KnownPrefix(table)) = Len(table)
       THEN /\ impl' = impl
                       \o <<Item("table", "east_asian", "EastAsianWidth",
                                 KnownPrefix(table), <<>>),
                            Item("accessor", "east_asian", "EastAsianWidth", <<>>,
                                 <<"Neutral">>)>>
            /\ pc' = NextStage(pc)
            /\ at' = "open"
       ELSE /\ impl' = impl
                       \o <<Item("partial table", "east_asian", "EastAsianWidth",
                                 KnownPrefix(table), <<>>)>>
            /\ pc' = "failed"
            /\ at' = at
    /\ UNCHANGED <<searchVars, seed, earlier, files, lineno, props, props_name, table>>

\* ---- process_emoji_props: lines 287-328 ----

EmojiCollect ==
    /\ pc = "emoji" /\ at = "collect" /\ ~AtEOF
    /\ props' = EmojiCollectLine(props, Lines[lineno])
    /\ lineno' = lineno + 1
    /\ UNCHANGED <<searchVars, seed, earlier, files, header, impl, pc, at, props_name, table>>

\* lines 294-295 and 303-305
EmojiSort ==
    /\ pc = "emoji" /\ at = "collect" /\ AtEOF
    /\ props' = SortAll(props)
    /\ at' = "write"
    /\ UNCHANGED <<searchVars, seed, earlier, files, header, impl, pc, lineno, props_name, table>>

\* lines 307-328
EmojiWrite ==
    /\ pc = "emoji" /\ at = "write"
    /\ impl' = impl \o TableItems("emoji", props)
                    \o [k \in 1..Cardinality(DOMAIN props) |->
                           Item("accessor", "emoji", SortedNames(DOMAIN props)[k],
                                <<>>, <<>>)]
    /\ header' = header
                 \o [k \in 1..Cardinality(DOMAIN props) |->
                        Item("decl", "emoji", SortedNames(DOMAIN props)[k],
                             <<>>, <<>>)]
    /\ pc' = NextStage(pc)
    /\ at' = "open"
    /\ UNCHANGED <<searchVars, seed, earlier, files, lineno, props, props_name, table>>

\* lines 129-131
file_footer ==
    /\ pc = "file_footer"
    /\ header' = Append(header, Item("epilogue", "", "", <<>>, <<>>))
    /\ impl' = Append(impl, Item("epilogue", "", "", <<>>, <<>>))
    /\ pc' = "done"
    /\ UNCHANGED <<searchVars, seed, earlier, files, at, lineno, props, props_name, table>>

(***************************************************************************)
(* The specifications.                                                     *)
(***************************************************************************)
\* no run of main came before this one
NoRun == [ran |-> FALSE]

\* the generator before main runs
GenIdle(f) ==
    /\ files = f
    /\ header = Stale
    /\ impl = Stale
    /\ pc = "new"
    /\ at = "open"
    /\ lineno = 1
    /\ props = EmptyDict
    /\ props_name = ""
    /\ table = <<>>
    /\ seed = 0
    /\ earlier = NoRun

DefaultFiles == [s \in SourceSet |-> Readable(DefaultLines(s))]

\* the search functions before a call
SearchIdle ==
    /\ ranges = <<>>
    /\ call = [f \in Forms |-> NewCall(0)]

InitSearch ==
    /\ ranges \in Tables
    /\ \E q \in Queries(ranges) : call = [f \in Forms |-> NewCall(q)]
    /\ GenIdle(DefaultFiles)

NextSearch ==
    \/ ContainsEnter
    \/ ContainsIterate
    \/ ContainsReturn
    \/ SearchEnter
    \/ SearchIterate
    \/ SearchReturn

SpecSearch == InitSearch /\ [][NextSearch]_vars

\* One of the five files is any file of up to MaxLines lines of its dialect,
\* or is unreadable; the other four are small well-formed files.
InitGen ==
    /\ SearchIdle
    /\ \E s \in SourceSet :
         \E f \in { Readable(l) : l \in LinesUpTo(s, MaxLines) } \cup {Unreadable} :
            GenIdle([DefaultFiles EXCEPT ![s] = f])

NextGen ==
    \/ Construct
    \/ file_header
    \/ OpenSource
    \/ CoreCollect
    \/ CoreSort
    \/ CoreWrite
    \/ GeneralCategoryCollect
    \/ GeneralCategoryWrite
    \/ PropsCollect
    \/ PropsSort
    \/ PropsWrite
    \/ EastAsianCollect
    \/ EastAsianSort
    \/ EastAsianWrite
    \/ EmojiCollect
    \/ EmojiSort
    \/ EmojiWrite
    \/ file_footer

SpecGen == InitGen /\ [][NextGen]_vars

(***************************************************************************)
(* Properties of contains and search, checked under SpecSearch.            *)
(***************************************************************************)
Done(f) == call[f].pc = "done"

\* the outcome that stands for "no match"
Miss(f) == IF f = "contains" THEN "false" ELSE "nullopt"

Covered(t, q) == \E k \in 1..Len(t) : Inside(t[k].interval, q)

\* a linear scan over the table testing start <= Q <= end
LinearScan(f, t, q) ==
    IF ~Covered(t, q) THEN Miss(f)
    ELSE IF f = "contains" THEN "true"
    ELSE LET k == CHOOSE j \in 1..Len(t) :
                     /\ Inside(t[j].interval, q)
                     /\ \A h \in 1..(j - 1) : ~Inside(t[h].interval, q)
         IN  t[k].property

\* the call returned a hit: true, or the property of an entry of the table
IsHit(f) ==
    /\ Done(f)
    /\ IF f = "contains" THEN call[f].result = "true"
       ELSE call[f].result \in { ranges[k].property : k \in 1..Len(ranges) }

\* C1: on a sorted disjoint table and a codepoint in [0, 0x10FFFF], contains
\* and search return what a linear scan returns.
C1_SearchCorrectness ==
    \A f \in Forms :
        (Done(f) /\ SortedDisjoint(ranges) /\ call[f].codepoint <= 1114111)
        => call[f].result = LinearScan(f, ranges, call[f].codepoint)

\* C2: on the table of letters search returns Upper for 0x41 and 0x5A, Lower
\* for 0x61, and no match for 0x30 and 0x5B.
C2_AlphaScenario ==
    (ranges = AlphaTable /\ Done("search"))
    => LET q == call["search"].codepoint
           r == call["search"].result
       IN  /\ q \in {65, 90} => r = "Upper"
           /\ q = 97 => r = "Lower"
           /\ q \in {48, 91} => r = "nullopt"

\* C3: for every interval {S, E} of a sorted disjoint table S, E and all
\* between hit; S-1 and E+1 miss when no other interval holds them (the
\* emoji table: 0x1F600 and 0x1F64F hit, 0x1F5FF and 0x1F650 miss).
C3_Boundary ==
    \A f \in Forms :
        (Done(f) /\ SortedDisjoint(ranges))
        => \A k \in 1..Len(ranges) :
              LET S == ranges[k].interval.from
                  E == ranges[k].interval.to
                  q == call[f].codepoint
              IN  /\ (S <= q /\ q <= E) => IsHit(f)
                  /\ ((q = S - 1 \/ q = E + 1) /\ ~Covered(ranges, q))
                     => call[f].result = Miss(f)

\* C4: on a table of no entries contains and search return no match, without
\* error and without reading a table entry.
C4_EmptyTable ==
    ranges = <<>>
    => \A f \in Forms :
          /\ call[f].reads = <<>>
          /\ Done(f) => call[f].result = Miss(f)

\* C5: contains and search never fail: for every table and every codepoint
\* they end with a value or with no match, and with no match when the
\* codepoint lies in no interval.
C5_NoFailure ==
    \A f \in Forms :
        Done(f)
        => /\ call[f].result # "fault"
           /\ ~call[f].ub
           /\ IsHit(f) \/ call[f].result = Miss(f)
           /\ ~Covered(ranges, call[f].codepoint) => call[f].result = Miss(f)

RECURSIVE Log2Floor(_)
Log2Floor(n) == IF n <= 1 THEN 0 ELSE 1 + Log2Floor(n \div 2)

\* the window hi - lo + 1 at the k-th iteration entered, and after it
WindowAt(c, k) == c.trace[k][2] - c.trace[k][1] + 1

WindowAfter(c, k) ==
    IF k < Len(c.trace) THEN WindowAt(c, k + 1) ELSE c.b - c.a + 1

\* the k-th iteration returned from inside the loop
ReturnedAt(c, k) ==
    k = Len(c.trace) /\ c.pc = "done" /\ c.a = c.trace[k][1] /\ c.b = c.trace[k][2]

\* C6: every loop iteration returns or shrinks the window to at most half,
\* and at most floor(log2 N) iterations run (none for N = 0).
C6_Halving ==
    \A f \in Forms :
        LET c == call[f]
        IN  /\ Len(c.trace) <= Log2Floor(Len(ranges))
            /\ \A k \in 1..Len(c.trace) :
                  ReturnedAt(c, k) \/ WindowAfter(c, k) <= WindowAt(c, k) \div 2

\* C7: contains is search with the tag discarded: on every table and every
\* codepoint contains returns true exactly when search returns a value, and
\* both run through the same (lo, hi, mid).
C7_SameAlgorithm ==
    (Done("contains") /\ Done("search"))
    => /\ call["contains"].result = "true" <=> IsHit("search")
       /\ call["contains"].result \in {"true", "false"}
       /\ call["contains"].trace = call["search"].trace

(***************************************************************************)
(* Properties of the compiler, checked under SpecGen.                      *)
(***************************************************************************)
\* the tables written so far
EmittedTables == { k \in 1..Len(impl) : impl[k].kind = "table" }

DistinctStarts(rows) ==
    \A i, j \in 1..Len(rows) : i # j => rows[i].start # rows[j].start

Ascending(rows) ==
    \A i \in 1..(Len(rows) - 1) : rows[i].start < rows[i + 1].start

\* C8: every emitted table, in every dialect, has strictly ascending starts,
\* whatever the order of its records in the file, provided no two of its
\* records share a start.
C8_Sortedness ==
    \A k \in EmittedTables :
        DistinctStarts(impl[k].rows) => Ascending(impl[k].rows)

\* The records of a file as the input states them: line n is a record when
\* it has the single or the range form, and the property it is assigned to
\* is its token (core, emoji), the name of the last marker line before it
\* (grapheme, general_category), or the one table of the file (east_asian).
NotSpace(tok) == tok.t # "ws"

Shape(l) == LET b == SelectSeq(l, NotSpace) IN [k \in 1..Len(b) |-> b[k].t]

IsPrefix(x, y) == Len(x) <= Len(y) /\ SubSeq(y, 1, Len(x)) = x

IsRecord(s, n) ==
    LET sh == Shape(files[s].lines[n])
    IN  \E w \in {"word", "hex"} :
            \/ IsPrefix(<<"hex", "semi", w, "hash">>, sh)
            \/ IsPrefix(<<"hex", "dotdot", "hex", "semi", w, "hash">>, sh)

RecordRange(s, n) ==
    LET l == files[s].lines[n]
    IN  IF l[2].t = "dotdot"
        THEN [start |-> HexValue(l[1].d), end |-> HexValue(l[3].d)]
        ELSE [start |-> HexValue(l[1].d), end |-> HexValue(l[1].d)]

RecordToken(s, n) ==
    LET l == files[s].lines[n]
        k == CHOOSE j \in 1..Len(l) : l[j].t = "semi"
    IN  IF l[k + 1].t = "ws" THEN l[k + 2].w ELSE l[k + 1].w

MarkerName(s, n) ==
    LET l == files[s].lines[n]
        key == IF s = "grapheme" THEN "Property:" ELSE "General_Category="
    IN  IF Len(l) >= 3 /\ l[1].t = "hash" /\ l[Len(l)].t = "word"
           /\ \E j \in 2..(Len(l) - 1) : l[j].t = "key" /\ l[j].w = key
        THEN l[Len(l)].w ELSE ""

LastMarker(s, n) ==
    LET before == { m \in 1..(n - 1) : MarkerName(s, m) # "" }
    IN  IF before = {} THEN ""
        ELSE MarkerName(s, CHOOSE m \in before : \A h \in before : h <= m)

Assigned(s, n) ==
    CASE s \in {"core", "emoji"} -> RecordToken(s, n)
      [] s = "east_asian" -> "EastAsianWidth"
      [] OTHER -> LastMarker(s, n)

RecordsOf(s, name) ==
    { n \in 1..Len(files[s].lines) : IsRecord(s, n) /\ Assigned(s, n) = name }

Overlap(x, y) ==
    /\ x.start <= x.end /\ y.start <= y.end
    /\ x.start <= y.end /\ y.start <= x.end

SameRange(x, y) == x.start = y.start /\ x.end = y.end

\* C9: the intervals of every emitted table are pairwise disjoint provided
\* the records assigned to its property in the file are; every row of a
\* table is a record assigned to that table's property, each record taken
\* once (so no record is in two tables and no table mixes two properties).
C9_Disjointness ==
    \A k \in EmittedTables :
        LET s == impl[k].source
            rows == impl[k].rows
            recs == RecordsOf(s, impl[k].name)
        IN  /\ (\A m, n \in recs :
                    m # n => ~Overlap(RecordRange(s, m), RecordRange(s, n)))
               => \A i, j \in 1..Len(rows) : i # j => ~Overlap(rows[i], rows[j])
            /\ \A i \in 1..Len(rows) :
                  Cardinality({ j \in 1..Len(rows) : SameRange(rows[j], rows[i]) })
                  <= Cardinality({ n \in recs : SameRange(RecordRange(s, n), rows[i]) })

\* a table of two properties' worth of records was written: two tables of
\* one by-token source, one of them with two rows
C9_Witness ==
    \E j, k \in EmittedTables :
        /\ impl[j].source = "emoji" /\ impl[k].source = "emoji"
        /\ impl[j].name # impl[k].name
        /\ Len(impl[j].rows) = 2
        /\ impl[j].rows[1].end < impl[j].rows[2].start

\* where the k-th entry of the input stands in the stable sort by start
RankOf(in, k) ==
    1 + Cardinality({ j \in 1..Len(in) : in[j].start < in[k].start })
      + Cardinality({ j \in 1..(k - 1) : in[j].start = in[k].start })

StableSortOf(in, out) ==
    /\ Len(out) = Len(in)
    /\ \A k \in 1..Len(in) : out[RankOf(in, k)] = in[k]
    /\ \A i \in 1..(Len(out) - 1) : out[i].start <= out[i + 1].start

\* C10: the normalizer's output for one property is the stable sort of its
\* input by start: the same entries, none merged, dropped, duplicated or
\* altered, ascending by start, entries of equal start in input order.
C10_StableSort ==
    [][(at = "collect" /\ at' = "write")
       => /\ DOMAIN props' = DOMAIN props
          /\ \A n \in DOMAIN props : StableSortOf(props[n], props'[n])
          /\ StableSortOf(table, table')]_vars

\* the list a file's lines leave in collect_range_table_with_prop, unsorted
RECURSIVE EastAsianCollected(_, _)
EastAsianCollected(lines, n) ==
    IF n = 0 THEN <<>>
    ELSE EastAsianCollectLine(EastAsianCollected(lines, n - 1), lines[n])

\* a list of three entries was sorted that was out of order and held two
\* overlapping entries of equal start
C10_Witness ==
    /\ pc = "east_asian" /\ at = "write"
    /\ Len(table) = 3
    /\ table # EastAsianCollected(Lines, Len(Lines))
    /\ \E i \in 1..2 : table[i].start = table[i + 1].start
                       /\ table[i].end # table[i + 1].end

(***************************************************************************)
(* Properties of the read loops, checked under SpecGen.                    *)
(***************************************************************************)
\* how many entries the lists of a dict hold, all names taken together
RECURSIVE EntriesHeld(_, _)
EntriesHeld(d, names) ==
    IF names = {} THEN 0
    ELSE LET n == CHOOSE x \in names : TRUE
         IN  Len(d[n]) + EntriesHeld(d, names \ {n})

\* the records among the lines of source s already read
RecordsRead(s) == { n \in 1..(lineno - 1) : IsRecord(s, n) }

\* C11: no data record aborts the run or is dropped for lacking a declared
\* property: in every dialect the read loop never leaves by an exception, and
\* every record read so far is an entry of some list.
C11_LazyCreation ==
    /\ pc = "failed" => at # "collect"
    /\ (pc \in SourceSet /\ at = "collect")
       => EntriesHeld(props, DOMAIN props) + Len(table)
          = Cardinality(RecordsRead(pc))

\* the records assigned to a property, as line numbers in file order
RecordSeq(s, name) ==
    LET Is(n) == IsRecord(s, n) /\ Assigned(s, n) = name
    IN  SelectSeq([n \in 1..Len(files[s].lines) |-> n], Is)

TokensSeen(s) ==
    { RecordToken(s, n) : n \in { m \in 1..Len(files[s].lines) : IsRecord(s, m) } }

\* C12: for a by-token source (core, emoji), once the whole file is read the
\* list of property P holds the records whose token is P, one entry per
\* record and in file order, and the names are exactly the tokens seen.
C12_ByToken ==
    (pc \in {"core", "emoji"} /\ at = "collect" /\ AtEOF)
    => /\ DOMAIN props = TokensSeen(pc)
       /\ \A P \in DOMAIN props :
             LET rs == RecordSeq(pc, P)
             IN  /\ Len(props[P]) = Len(rs)
                 /\ \A k \in 1..Len(rs) :
                       /\ props[P][k].start = RecordRange(pc, rs[k]).start
                       /\ props[P][k].end = RecordRange(pc, rs[k]).end

\* a file of two tokens was read to its end, one token with two records
\* that stand in the file in descending order of start
C12_Witness ==
    /\ pc \in {"core", "emoji"} /\ at = "collect" /\ AtEOF
    /\ Cardinality(DOMAIN props) = 2
    /\ \E P \in DOMAIN props :
          Len(props[P]) = 2 /\ props[P][1].start > props[P][2].start

MarkerDialects == {"grapheme", "general_category"}

\* the marker lines among the lines of source s already read
MarkersRead(s) == { n \in 1..(lineno - 1) : MarkerName(s, n) # "" }

\* the records already read that are assigned to a name, in file order
RecordSeqRead(s, name) ==
    LET Is(n) == IsRecord(s, n) /\ Assigned(s, n) = name
    IN  SelectSeq([n \in 1..(lineno - 1) |-> n], Is)

\* In the read loop of a marker dialect: the active name is the name of the
\* last marker line read, the lists are those of the markers read, and the
\* list of a name holds the records read under it, in file order; in the
\* sources of `retaining` an entry carries the record's value token, in the
\* others it carries start, end and comment only.
MarkerAggregation(retaining) ==
    (pc \in MarkerDialects /\ at = "collect")
    => /\ props_name = LastMarker(pc, lineno)
       /\ DOMAIN props = { MarkerName(pc, n) : n \in MarkersRead(pc) }
       /\ \A name \in DOMAIN props :
             LET rs == RecordSeqRead(pc, name)
             IN  /\ Len(props[name]) = Len(rs)
                 /\ \A k \in 1..Len(rs) :
                       LET e == props[name][k]
                       IN  /\ e.start = RecordRange(pc, rs[k]).start
                           /\ e.end = RecordRange(pc, rs[k]).end
                           /\ IF pc \in retaining
                              THEN /\ "property" \in DOMAIN e
                                   /\ e.property = RecordToken(pc, rs[k])
                              ELSE DOMAIN e = {"start", "end", "comment"}

\* C13 as stated: in a marker dialect (grapheme-break properties, general
\* category) a marker line sets the active name and adds no record, and
\* every later record is appended, its value token retained, to the list of
\* the most recent marker before it.
C13_MarkerState == MarkerAggregation(MarkerDialects)

\* C13, amended: as above, but the value token is retained by the
\* grapheme-break dialect only; the general-category dialect discards the
\* token and keeps start, end and comment.
C13_MarkerStateAmended == MarkerAggregation({"grapheme"})

\* two markers of different names were read and then a record, which went,
\* with its token, to the list of the second marker
C13_Witness ==
    /\ pc = "grapheme" /\ at = "collect" /\ lineno = 4
    /\ MarkerName(pc, 1) # "" /\ MarkerName(pc, 2) # ""
    /\ MarkerName(pc, 1) # MarkerName(pc, 2)
    /\ IsRecord(pc, 3)
    /\ props[MarkerName(pc, 1)] = <<>>
    /\ Len(props[MarkerName(pc, 2)]) = 1
    /\ props[MarkerName(pc, 2)][1].property = RecordToken(pc, 3)

\* line n of source s has neither the single nor the range form and is no
\* marker line of the dialect
Malformed(s, n) ==
    /\ ~IsRecord(s, n)
    /\ s \in MarkerDialects => MarkerName(s, n) = ""

\* C14: a line matching neither grammar nor the marker pattern is skipped
\* without failing: the step that reads it leaves the mapping and the active
\* name as they were, and the read loop goes on with the next line.
C14_SkipMalformed ==
    [][(pc \in SourceSet /\ at = "collect" /\ ~AtEOF /\ Malformed(pc, lineno))
       => /\ props' = props
          /\ props_name' = props_name
          /\ table' = table
          /\ pc' = pc /\ at' = at
          /\ lineno' = lineno + 1]_vars

\* a malformed line was read, and the record after it was then taken
C14_Witness ==
    /\ pc \in SourceSet /\ at = "collect" /\ lineno = 3
    /\ Malformed(pc, 1) /\ IsRecord(pc, 2)
    /\ EntriesHeld(props, DOMAIN props) + Len(table) = 1

(***************************************************************************)
(* Properties of a whole run, checked under SpecGen.                       *)
(***************************************************************************)
\* C15: when a source file is unreadable the run aborts and writes no
\* partial output: the header and the implementation file are left as they
\* were before the run, neither truncated nor given any content.
C15_NoPartialOutput ==
    (\E s \in SourceSet : ~files[s].readable)
    => /\ header = Stale
       /\ impl = Stale
       /\ pc # "done"

\* two records of one property of source s share a start or overlap
Conflicting(s) ==
    \E m, n \in { k \in 1..Len(files[s].lines) : IsRecord(s, k) } :
        /\ m # n
        /\ Assigned(s, m) = Assigned(s, n)
        /\ \/ RecordRange(s, m).start = RecordRange(s, n).start
           \/ Overlap(RecordRange(s, m), RecordRange(s, n))

\* a warning is something the run wrote: the two files are all it writes to
Warned ==
    \/ \E k \in 1..Len(header) : header[k].kind = "warning"
    \/ \E k \in 1..Len(impl) : impl[k].kind = "warning"

\* C16: a run over a file in which two records of one property share a
\* start or overlap flags a warning, and completes.
C16_WarnsOnConflict ==
    (pc = "done" /\ \E s \in SourceSet : Conflicting(s)) => Warned

(***************************************************************************)
(* The emitted valued accessors.  Each calls search on the table of its     *)
(* property (lines 259 and 461).  SpecLookup is one run of the generator,  *)
(* one of the two valued sources being any file of its dialect, followed   *)
(* by one call of a valued accessor on a table the run wrote.              *)
(***************************************************************************)
\* largest codepoint an accessor is asked about; the files hold 1..3
MaxQuery == 4

ValuedSources == {"grapheme", "east_asian"}

\* the rows of an emitted valued table as the array of Prop the C++ holds
AsProps(rows) ==
    [k \in 1..Len(rows) |-> Prop(rows[k].start, rows[k].end, rows[k].property)]

\* a function no accessor has called
Uncalled == [NewCall(0) EXCEPT !.pc = "uncalled"]

ValuedTables ==
    { k \in EmittedTables : impl[k].source \in ValuedSources }

\* lines 258-261 and 459-463: the accessor hands its table to search; the
\* call keeps the source and the name of the table it was handed
Accessor ==
    /\ pc = "done"
    /\ call["search"].pc = "uncalled"
    /\ \E k \in ValuedTables, q \in 0..MaxQuery :
          /\ ranges' = AsProps(impl[k].rows)
          /\ call' = [call EXCEPT !["search"] =
                          NewCall(q) @@ [source |-> impl[k].source,
                                         name |-> impl[k].name]]
    /\ UNCHANGED genVars

\* lines 459-463: what east_asian_width returns, given what search returned
east_asian_width(p) == IF p = "nullopt" THEN "Neutral" ELSE p

\* lines 258-261: what the accessor of tag enum returns, given what search
\* returned
tag_accessor(enum, p) == IF p = "nullopt" THEN FALSE ELSE p = enum

InitLookup ==
    /\ ranges = <<>>
    /\ call = [f \in Forms |-> Uncalled]
    /\ \E s \in ValuedSources :
         \E l \in LinesUpTo(s, MaxLines) :
            GenIdle([DefaultFiles EXCEPT ![s] = Readable(l)])

NextLookup ==
    \/ NextGen
    \/ Accessor
    \/ SearchEnter
    \/ SearchIterate
    \/ SearchReturn

SpecLookup == InitLookup /\ [][NextLookup]_vars

(***************************************************************************)
(* Properties of a lookup in an emitted table, checked under SpecLookup.   *)
(***************************************************************************)
\* the entries of the table in hand that hold the codepoint asked about
Holding == { k \in 1..Len(ranges) : Inside(ranges[k].interval, call["search"].codepoint) }

\* every record of a valued source is a row of its emitted table
AllKept ==
    \A k \in ValuedTables :
        Len(impl[k].rows) = Cardinality(RecordsOf(impl[k].source, impl[k].name))

\* the first of the entries holding the codepoint, in the order of the table
FirstHolding == CHOOSE k \in Holding : \A j \in Holding : k <= j

\* C17 as stated: overlapping entries are both kept in the emitted table,
\* and a query for a codepoint that lies in two entries returns the value of
\* the one that sorts first.
C17_FirstWins ==
    /\ AllKept
    /\ (Done("search") /\ Cardinality(Holding) >= 2)
       => call["search"].result = ranges[FirstHolding].property

\* C17, amended: overlapping entries are both kept in the emitted table, and
\* a query for a codepoint that lies in two entries ends without a read
\* outside the table and returns the value of an entry that holds the
\* codepoint, or no match; which of them is decided by the order of the
\* probes, not by the order of the table.
C17_SomeHolderWins ==
    /\ AllKept
    /\ (Done("search") /\ Cardinality(Holding) >= 2)
       => /\ ~call["search"].ub
          /\ call["search"].result
                \in { ranges[k].property : k \in Holding } \cup {"nullopt"}

\* a query for a codepoint held by two entries of different values returned
\* the value of the second
C17_Witness ==
    /\ Done("search")
    /\ Cardinality(Holding) >= 2
    /\ \E k \in Holding :
          /\ k # FirstHolding
          /\ ranges[k].property # ranges[FirstHolding].property
          /\ call["search"].result = ranges[k].property

(***************************************************************************)
(* Properties of the order of emission, checked under SpecGen.             *)
(***************************************************************************)
AscendingNames(names) ==
    \A i \in 1..(Len(names) - 1) : StrLess(names[i], names[i + 1])

NonDescendingNames(names) ==
    \A i \in 1..(Len(names) - 1) :
        names[i] = names[i + 1] \/ StrLess(names[i], names[i + 1])

\* the names of the items of one kind and source in a file, in file order
ItemNames(out, kind, s) ==
    LET Is(it) == it.kind = kind /\ it.source = s
        sel == SelectSeq(out, Is)
    IN  [k \in 1..Len(sel) |-> sel[k].name]

\* C18: within each source the tables, the enumerators of the enumeration
\* of property names and the accessors are written in ascending
\* lexicographic order of property name, whatever the order in which the
\* names first appear in the file.
C18_NameOrder ==
    \A s \in SourceSet :
        /\ AscendingNames(ItemNames(impl, "table", s))
        /\ s \in {"core", "general_category"}
           => \A out \in {header, impl} :
                 \A k \in 1..Len(out) :
                    (out[k].source = s /\ out[k].kind \in {"enum", "accessor"})
                    => AscendingNames(out[k].members)
        /\ s = "general_category"
           => AscendingNames(ItemNames(header, "inline", s))
        /\ s = "grapheme"
           => /\ AscendingNames(ItemNames(header, "enum", s))
              /\ NonDescendingNames(ItemNames(header, "decl", s))
              /\ NonDescendingNames(ItemNames(impl, "accessor", s))
        /\ s = "emoji"
           => /\ AscendingNames(ItemNames(header, "decl", s))
              /\ AscendingNames(ItemNames(impl, "accessor", s))

\* the core file names W first and Na after it; the tables were written Na
\* first, and so were the enumerators
C18_Witness ==
    /\ Len(files["core"].lines) >= 2
    /\ IsRecord("core", 1) /\ RecordToken("core", 1) = "W"
    /\ ItemNames(impl, "table", "core") = <<"Na", "W">>
    /\ \E k \in 1..Len(header) :
          /\ header[k].kind = "enum" /\ header[k].source = "core"
          /\ header[k].members = <<"Na", "W">>

\* the enumerations of value tags a run wrote
TagEnums ==
    { k \in 1..Len(header) :
        header[k].kind = "enum" /\ header[k].source \in ValuedSources }

\* C19: every emitted enumeration of value tags (the grapheme-break family
\* and East Asian width alike) lists each tag once, in ascending
\* lexicographic order.
C19_TagOrder ==
    \A k \in TagEnums : AscendingNames(header[k].members)

\* the members of the enumeration written for the table of a name
EnumMembers(s, name) ==
    LET k == CHOOSE j \in TagEnums :
                 header[j].source = s /\ header[j].name = name
    IN  { header[k].members[i] : i \in 1..Len(header[k].members) }

RowTags(rows) == { rows[i].property : i \in 1..Len(rows) }

\* C20: the enumeration of value tags of a multi-valued property is derived
\* from the value tokens of its records and holds every tag a row of the
\* emitted table refers to; no value token makes the run fail as an
\* unknown tag.
C20_EnumSuperset ==
    /\ ~(pc = "failed" /\ at = "write")
    /\ \A k \in 1..Len(impl) :
          (impl[k].kind \in {"table", "partial table"}
           /\ impl[k].source \in ValuedSources)
          => /\ RowTags(impl[k].rows)
                   \subseteq EnumMembers(impl[k].source, impl[k].name)
             /\ impl[k].kind = "table"
                => EnumMembers(impl[k].source, impl[k].name)
                      \subseteq RowTags(impl[k].rows)

(***************************************************************************)
(* Two runs over the same files.  SpecTwice is a run of main, in a process *)
(* of any hash seed, followed by a second run in a new process of any hash *)
(* seed, the source files left as they were.  The file that varies is one *)
(* of the two whose enumeration is written from a set or from the values   *)
(* of a dict (lines 243-247, 437-438).                                     *)
(***************************************************************************)
Ended == pc \in {"done", "failed"}

\* main is started again once the first run has ended
Rerun ==
    /\ Ended
    /\ earlier = NoRun
    /\ earlier' = [ran |-> TRUE, header |-> header, impl |-> impl,
                   pc |-> pc, seed |-> seed]
    /\ seed' \in Seeds
    /\ pc' = "new"
    /\ at' = "open"
    /\ lineno' = 1
    /\ props' = EmptyDict
    /\ props_name' = ""
    /\ table' = <<>>
    /\ UNCHANGED <<searchVars, files, header, impl>>

InitTwice ==
    /\ SearchIdle
    /\ seed \in Seeds
    /\ earlier = NoRun
    /\ header = Stale /\ impl = Stale
    /\ pc = "new" /\ at = "open" /\ lineno = 1
    /\ props = EmptyDict /\ props_name = "" /\ table = <<>>
    /\ \E s \in ValuedSources :
         \E f \in { Readable(l) : l \in LinesUpTo(s, MaxLines) } \cup {Unreadable} :
            files = [DefaultFiles EXCEPT ![s] = f]

NextTwice ==
    \/ NextGen
    \/ Rerun

SpecTwice == InitTwice /\ [][NextTwice]_vars

\* C21: generation is deterministic: a second run over the same files ends
\* as the first did and leaves the same header and implementation file, item
\* for item and in the same order, whatever the order in which either
\* process iterates its unordered collections.
C21_Deterministic ==
    (earlier # NoRun /\ Ended)
    => /\ pc = earlier.pc
       /\ header = earlier.header
       /\ impl = earlier.impl

\* a second run, in a process of another hash seed, has ended after writing
\* an enumeration of two value tags
C21_Witness ==
    /\ earlier # NoRun /\ pc = "done"
    /\ seed # earlier.seed
    /\ \E k \in TagEnums :
          header[k].source = "grapheme" /\ Len(header[k].members) = 2

(***************************************************************************)
(* Properties of the valued accessors, checked under SpecLookup.           *)
(***************************************************************************)
TableTags == { ranges[k].property : k \in 1..Len(ranges) }

\* the tags for which the accessors of a grapheme-break property answer
\* true, given what search returned
TagsAnswered(p) == { e \in TableTags \cup {p} : tag_accessor(e, p) }

\* C22: a valued accessor returns the tag of the entry holding the
\* codepoint, and for a codepoint in no interval of its table a 'no match'
\* that differs from its result for every codepoint that is in an interval;
\* the East Asian width accessor as every other.
C22_ExplicitNoMatch ==
    (Done("search") /\ call["search"].pc # "uncalled")
    => LET p == call["search"].result
       IN  IF call["search"].source = "east_asian"
           THEN /\ Holding # {}
                   => east_asian_width(p) \in { ranges[k].property : k \in Holding }
                /\ Holding = {} => east_asian_width(p) \notin TableTags
           ELSE /\ Holding # {}
                   => \E k \in Holding : TagsAnswered(p) = {ranges[k].property}
                /\ Holding = {} => TagsAnswered(p) = {}

(***************************************************************************)
(* Properties of interleaved invocations, checked under SpecSearch: one    *)
(* invocation of contains and one of search run over the same table, their *)
(* loop iterations interleaved in every order.                             *)
(***************************************************************************)
Outcome(result, trace) == [result |-> result, trace |-> trace]

\* contains run from start to end with nothing in between: its result and
\* the (a, b, i) of its iterations
RECURSIVE ContainsAlone(_, _, _, _, _)
ContainsAlone(t, q, a, b, trace) ==
    IF a < b
    THEN LET i == (a + b) \div 2
             tr == Append(trace, <<a, b, i>>)
         IN  IF t[i + 1].interval.to < q
             THEN ContainsAlone(t, q, i + 1, b, tr)
             ELSE IF t[i + 1].interval.from > q
             THEN ContainsAlone(t, q, a, i - 1, tr)
             ELSE Outcome("true", tr)
    ELSE Outcome(IF a = b /\ Inside(t[a + 1].interval, q)
                 THEN "true" ELSE "false", trace)

\* search run alone, its indices unsigned of SizeBits bits; "undefined" once
\* it reads outside the table
RECURSIVE SearchAlone(_, _, _, _, _)
SearchAlone(t, q, a, b, trace) ==
    IF a < b
    THEN LET i == ((a + b) % (2 ^ SizeBits)) \div 2
             tr == Append(trace, <<a, b, i>>)
         IN  IF i >= Len(t) THEN Outcome("undefined", tr)
             ELSE IF t[i + 1].interval.to < q
             THEN SearchAlone(t, q, (i + 1) % (2 ^ SizeBits), b, tr)
             ELSE IF t[i + 1].interval.from > q
             THEN SearchAlone(t, q, a, (i + 2 ^ SizeBits - 1) % (2 ^ SizeBits), tr)
             ELSE Outcome(t[i + 1].property, tr)
    ELSE IF a # b THEN Outcome("nullopt", trace)
         ELSE IF a >= Len(t) THEN Outcome("undefined", trace)
         ELSE Outcome(IF Inside(t[a + 1].interval, q)
                      THEN t[a + 1].property ELSE "nullopt", trace)

Alone(f, t, q) ==
    IF f = "contains" THEN ContainsAlone(t, q, 0, Len(t) - 1, <<>>)
    ELSE SearchAlone(t, q, 0, (Len(t) + 2 ^ SizeBits - 1) % (2 ^ SizeBits), <<>>)

\* an ended invocation went as it goes alone: the same iterations and the
\* same result, or a read outside the table in both
AsAlone(f, c, t) ==
    LET o == Alone(f, t, c.codepoint)
    IN  /\ c.trace = o.trace
        /\ IF o.result = "undefined" THEN c.ub
           ELSE ~c.ub /\ c.result = o.result

\* C23: the search primitive is read-only: a step of an invocation leaves
\* the table and the other invocation as they were, and an invocation whose
\* steps are interleaved with another's over the same table ends as it ends
\* when run alone.
C23_ReadOnly ==
    [][/\ ranges' = ranges
       /\ \A f \in Forms :
             /\ call'[f] # call[f]
                => \A g \in Forms \ {f} : call'[g] = call[g]
             /\ call'[f].pc = "done" => AsAlone(f, call'[f], ranges')]_vars

\* both invocations ended, each after two iterations of its loop
C23_Witness ==
    /\ Done("contains") /\ Done("search")
    /\ Len(call["contains"].trace) = 2
    /\ Len(call["search"].trace) = 2
    /\ ~call["search"].ub

(***************************************************************************)
(* Properties of the indices, checked under SpecSearch.                    *)
(***************************************************************************)
\* C24: in every state of either form the index arithmetic has not wrapped
\* around: the upper index is at most N - 1 (so neither N - 1 for N = 0 nor
\* mid - 1 for mid = 0 was computed as an unsigned value), and every index
\* read lies in [0, N-1].
C24_NoWraparound ==
    \A f \in Forms :
        LET c == call[f]
        IN  /\ c.pc \in {"loop", "done"} => c.b <= Len(ranges) - 1
            /\ \A k \in 1..Len(c.reads) :
                  0 <= c.reads[k] /\ c.reads[k] <= Len(ranges) - 1
            /\ ~c.ub

\* the step by which an invocation leaves its loop without a hit, over a
\* table that is not empty
LoopExit(f) ==
    /\ Len(ranges) >= 1
    /\ call[f].pc = "loop" /\ ~(call[f].a < call[f].b)
    /\ call'[f].pc = "done"

\* the one remaining candidate is tested, once
TestsCandidate(f) ==
    /\ call[f].a = call[f].b
    /\ call'[f].reads = Append(call[f].reads, call[f].a)

\* C25 as stated: whenever the loop over a non-empty table exits without a
\* hit, lo == hi holds, and that index is tested once for membership.
C25_ExitAtCandidate ==
    [][\A f \in Forms : LoopExit(f) => TestsCandidate(f)]_vars

\* C25, amended: the loop over a non-empty table exits without a hit either
\* with lo == hi, and that index is then tested once, or with lo == hi + 1
\* (the last probe was the lower index and lay above the codepoint), and
\* then no entry is tested and the result is no match.
C25_ExitAtCandidateOrPast ==
    [][\A f \in Forms :
          LoopExit(f)
          => \/ TestsCandidate(f)
             \/ /\ call[f].a = call[f].b + 1
                /\ call'[f].reads = call[f].reads
                /\ call'[f].result = Miss(f)]_vars

\* an invocation over a table of four entries left its loop after two
\* iterations with the lower index past the upper one and returned no match
C25_Witness ==
    \E f \in Forms :
        /\ Len(ranges) = 4
        /\ Done(f) /\ ~call[f].ub
        /\ call[f].a = call[f].b + 1
        /\ Len(call[f].trace) = 2
        /\ call[f].result = Miss(f)

(***************************************************************************)
(* Properties of the entries collected, checked under SpecGen.             *)
(***************************************************************************)
\* the entries the running function holds, and the rows written so far
EntriesAndRows ==
    UNION { { props[n][k] : k \in 1..Len(props[n]) } : n \in DOMAIN props }
    \cup { table[k] : k \in 1..Len(table) }
    \cup UNION { { impl[j].rows[k] : k \in 1..Len(impl[j].rows) } :
                 j \in 1..Len(impl) }

\* C26: every range held in a property table has start <= end, whatever
\* the file, one with a range line written backwards included.
C26_StartNotAfterEnd ==
    \A e \in EntriesAndRows : e.start <= e.end

Held == EntriesHeld(props, DOMAIN props) + Len(table)

\* C27: a line contributes at most one record, in every dialect: the step
\* that reads a line adds at most one entry (a range line is not taken as a
\* single-codepoint line as well, though both patterns are tried), and none
\* when the line begins with '#'.
C27_OneRecordPerLine ==
    [][(pc \in SourceSet /\ at = "collect" /\ ~AtEOF)
       => /\ EntriesHeld(props', DOMAIN props') + Len(table') <= Held + 1
          /\ StartsWithHash(Lines[lineno])
             => EntriesHeld(props', DOMAIN props') + Len(table') = Held]_vars

\* a range line was read, and then a line beginning with '#': one entry is
\* held, with the start and the end of the range line
C27_Witness ==
    /\ pc \in SourceSet /\ at = "collect" /\ lineno = 3
    /\ IsRecord(pc, 1) /\ Lines[1][2].t = "dotdot"
    /\ StartsWithHash(Lines[2])
    /\ Held = 1
    /\ \E e \in EntriesAndRows :
          /\ e.start = RecordRange(pc, 1).start
          /\ e.end = RecordRange(pc, 1).end
          /\ e.start # e.end

(***************************************************************************)
(* Properties of the order of a run, checked under SpecGen.                *)
(***************************************************************************)
Positions(out, kind) == { k \in 1..Len(out) : out[k].kind = kind }

NonDescending(list) ==
    \A i \in 1..(Len(list) - 1) : list[i].start <= list[i + 1].start

\* the lists of the running function are normalized
Normalized ==
    /\ \A n \in DOMAIN props : NonDescending(props[n])
    /\ NonDescending(table)

\* search and contains stand once in the implementation file, before every
\* table and accessor, and nothing stands behind the footer
WellPlaced(hdr, imp) ==
    /\ \A name \in {"contains", "search"} :
          LET at_ == { k \in Positions(imp, "primitive") : imp[k].name = name }
          IN  /\ Cardinality(at_) <= 1
              /\ \A k \in Positions(imp, "table") \cup Positions(imp, "partial table")
                          \cup Positions(imp, "accessor") :
                    \E p \in at_ : p < k
    /\ \A out \in {hdr, imp} :
          \A k \in Positions(out, "epilogue") : k = Len(out)

\* C28: in a run the binary-search primitive is emitted once, before every
\* table and every accessor; the tables of a source are emitted only after
\* all its lines are read and its lists normalized; the footer is emitted
\* last.
C28_EmissionOrder ==
    [][/\ WellPlaced(header', impl')
       /\ pc' = "done"
          => /\ Positions(header', "epilogue") # {}
             /\ Positions(impl', "epilogue") # {}
       /\ (Positions(impl', "table") # Positions(impl, "table")
           /\ Positions(impl, "table") \subseteq Positions(impl', "table"))
          => /\ pc \in SourceSet
             /\ AtEOF
             /\ Normalized]_vars

(***************************************************************************)
(* Properties of the results and of the window, checked under SpecSearch.  *)
(***************************************************************************)
\* C29: no false hit, whatever the table: if contains returned true, or
\* search returned a value, then some entry of the table holds the
\* codepoint (and carries that value).
C29_NoFalseHit ==
    /\ (Done("contains") /\ call["contains"].result = "true")
       => Covered(ranges, call["contains"].codepoint)
    /\ (Done("search") /\ call["search"].result \notin {"nullopt", "fault"})
       => \E k \in 1..Len(ranges) :
             /\ Inside(ranges[k].interval, call["search"].codepoint)
             /\ ranges[k].property = call["search"].result

\* C30: on a sorted disjoint table the window never excludes the answer: at
\* the start of every iteration and at loop exit an entry k holding Q has
\* lo <= k <= hi; and for N >= 1 the lower index stays within [0, N-1].
C30_WindowKeepsAnswer ==
    SortedDisjoint(ranges)
    => \A f \in Forms :
          call[f].pc = "loop"
          => /\ \A k \in 1..Len(ranges) :
                   Inside(ranges[k].interval, call[f].codepoint)
                   => call[f].a <= k - 1 /\ k - 1 <= call[f].b
             /\ Len(ranges) >= 1
                => 0 <= call[f].a /\ call[f].a <= Len(ranges) - 1

\* after two iterations over a sorted disjoint table of four entries the
\* window has shrunk to the one entry that holds the codepoint
C30_Witness ==
    /\ SortedDisjoint(ranges) /\ Len(ranges) = 4
    /\ \E f \in Forms :
          /\ call[f].pc = "loop"
          /\ Len(call[f].trace) = 2
          /\ call[f].a = call[f].b
          /\ Inside(ranges[call[f].a + 1].interval, call[f].codepoint)

====
